---- MODULE Spec2Model ----
(***************************************************************************)
(* The streaming client of rpaca: the background task spawned by           *)
(* stream_crypto_data (src/market_data/v2/crypto_websocket.rs, lines       *)
(* 648-788), which stream_stock_data (stock_websocket.rs, lines 844-986)   *)
(* repeats line for line.  One task connects, authenticates, subscribes    *)
(* and relays decoded messages into a bounded channel, and reconnects      *)
(* with a backoff after every failure; one consumer pulls from the         *)
(* channel.                                                                *)
(*                                                                         *)
(* An action is the code between two suspension points (.await) of the     *)
(* task.  The transport (connect results, inbound frames, write results)   *)
(* and the consumer are the environment.                                   *)
(***************************************************************************)
EXTENDS Integers, Sequences, FiniteSets, TLC

(***************************************************************************)
(* Bounds of the model.                                                    *)
(***************************************************************************)
\* Capacity of the output channel.  The code allocates 1024 slots; the model
\* scales the capacity down so that a full channel is reachable.
ChanCap == 2
\* Longest inbound text frame, in elements.
MaxBatch == 2
\* Most output items one loop iteration (one connection) may produce.
MaxItems == 4
\* Most consecutive handshake rejections whose delays are recorded.
MaxRejections == 3
\* Largest value the attempt counter may reach (the code's u32 is unbounded
\* for every practical purpose: 2^32 consecutive failures).
MaxAttempt == 8

(***************************************************************************)
(* Program constants.                                                      *)
(***************************************************************************)
BackoffBaseMs == 250
BackoffCapExp == 6

(***************************************************************************)
(* Subscription descriptor and the commands written on the socket.         *)
(***************************************************************************)
\* struct Subscribe: every channel holds an ordered list of symbols.
Subscribe(trades, quotes) ==
    [trades |-> trades, quotes |-> quotes, bars |-> <<>>,
     daily_bars |-> <<>>, updated_bars |-> <<>>, orderbooks |-> <<>>]

\* The descriptor the caller passes in params.subscription: trades for BTC/USD.
Descriptors == { Subscribe(<<"BTC/USD">>, <<>>) }

\* Mutant of action_json: a rendering that puts the quotes under "trades" and
\* the trades under "quotes".
action_json_Swapped(s) ==
    [action |-> "subscribe",
     trades |-> s.quotes, quotes |-> s.trades, bars |-> s.bars,
     dailyBars |-> s.daily_bars, updatedBars |-> s.updated_bars,
     orderbooks |-> s.orderbooks]

\* Subscribe::action_json: the json! object names every channel, empty or not.
action_json(s) ==
    [action |-> "subscribe",
     trades |-> s.trades, quotes |-> s.quotes, bars |-> s.bars,
     dailyBars |-> s.daily_bars, updatedBars |-> s.updated_bars,
     orderbooks |-> s.orderbooks]

\* The auth command built in step 1.
AuthCmd == [action |-> "auth", key |-> "KEY", secret |-> "SECRET"]

(***************************************************************************)
(* Wire elements, decoded messages, inbound events.                        *)
(***************************************************************************)
\* Tags the enum StockMsg knows (#[serde(tag = "T")]); the model keeps the
\* administrative ones and one market-data kind.
VariantOf(tag) ==
    CASE tag = "t" -> "Trade"
      [] tag = "subscription" -> "Subscription"
      [] tag = "success" -> "Success"
      [] tag = "error" -> "Error"
      [] OTHER -> "unknown"

\* JSON objects the server may put in a frame: [T, msg].
WireConnected == [T |-> "success", msg |-> "connected"]
WireAuthenticated == [T |-> "success", msg |-> "authenticated"]
WireError == [T |-> "error", msg |-> "auth failed"]
WireAck == [T |-> "subscription", msg |-> "BTC/USD"]
WireTrade == [T |-> "t", msg |-> "BTC/USD"]
WireUnknown == [T |-> "z", msg |-> "BTC/USD"]

WireElems ==
    {WireConnected, WireAuthenticated, WireError, WireAck, WireTrade, WireUnknown}

\* serde's decode of one tagged object into a StockMsg.
DecodeElem(e) == [variant |-> VariantOf(e.T), msg |-> e.msg]

\* Mutant of from_str: a decode that skips the elements of unknown tag and
\* returns the others.
from_str_PerElement(txt) ==
    LET known == SelectSeq(txt, LAMBDA x : VariantOf(x.T) # "unknown")
    IN  [ok |-> TRUE, batch |-> [i \in 1..Len(known) |-> DecodeElem(known[i])]]

\* serde_json::from_str::<Vec<StockMsg>>: one Result for the whole frame.
from_str(txt) ==
    IF \E i \in 1..Len(txt) : VariantOf(txt[i].T) = "unknown"
    THEN [ok |-> FALSE, batch |-> <<>>]
    ELSE [ok |-> TRUE, batch |-> [i \in 1..Len(txt) |-> DecodeElem(txt[i])]]

Connected == DecodeElem(WireConnected)
Authenticated == DecodeElem(WireAuthenticated)
ErrorMsg == DecodeElem(WireError)
Ack == DecodeElem(WireAck)
Trade == DecodeElem(WireTrade)

SeqsUpTo(S, n) == UNION { [1..k -> S] : k \in 0..n }

\* What read.next().await may resolve to: Some(Ok(Text)), Some(Ok(Close)),
\* Some(Ok(other frame)), Some(Err) and None.
TextFrames == { [kind |-> "text", txt |-> t] : t \in SeqsUpTo(WireElems, MaxBatch) }
CloseFrame == [kind |-> "close", txt |-> <<>>]
OtherFrame == [kind |-> "other", txt |-> <<>>]
ReadErr == [kind |-> "err", txt |-> <<>>]
EndOfStream == [kind |-> "eos", txt |-> <<>>]
Incoming == TextFrames \cup {CloseFrame, OtherFrame, ReadErr, EndOfStream}

(***************************************************************************)
(* Output items: Result<StockMsg>.  Two fields are history tags: cur is    *)
(* TRUE while the session that produced the item is running, and step is   *)
(* the step of the loop body (2 or 4) that forwarded an Ok item.           *)
(***************************************************************************)
OkItem(m, step) == [ok |-> TRUE, v |-> m, cur |-> TRUE, step |-> step]
ErrItem(what) ==
    [ok |-> FALSE, v |-> [variant |-> "Err", msg |-> what], cur |-> TRUE,
     step |-> 0]

\* Mutant of Min: an exponent that is not clamped.
Min_Unclamped(a, b) == a

\* (1u64 << attempt.min(6)) * 250
Min(a, b) == IF a < b THEN a ELSE b
Backoff(a) == (2 ^ Min(a, BackoffCapExp)) * BackoffBaseMs

VARIABLES
    pc,             \* the suspension point the task is at
    attempt,        \* let mut attempt: u32
    authed,         \* let mut authed
    batch,          \* the rest of the batch the for loop is iterating
    out,            \* the item the pending tx.send holds (<<>> when none)
    backoff_ms,     \* the delay of the pending sleep
    chan,           \* the mpsc channel's queue
    rxAlive,        \* the consumer still holds the stream
    subscription,   \* params.subscription
    subscribe_json, \* rendered once, before the task is spawned
    frame,          \* the text frame under decode (<<>> outside the decode runs)
    wire,           \* commands written on the current connection
    \* history variables; "session" is a loop iteration up to its failure
    produced,       \* items the running session has handed to tx.send
    observed,       \* items of the running session the consumer has pulled
    fed,            \* messages decoded from text frames in Streaming
    inbound,        \* how far the inbound events match Scenario (-1: not)
    reason,         \* why the session the task sleeps after has ended
    delays,         \* delays slept since the last successful connect
    rejections,     \* delays slept by consecutive handshake rejections
    rejected,       \* a server Error was seen on this connection in step 2
    afterRun        \* the session began with attempt = 3 and has sent no item

vars == <<pc, attempt, authed, batch, out, backoff_ms, chan, rxAlive,
          subscription, subscribe_json, frame, wire, produced, observed, fed,
          inbound, reason, delays, rejections, rejected, afterRun>>

TxSites == {"tx_connect", "tx_send_auth", "tx_handshake", "tx_auth_fwd",
            "tx_auth_decode", "tx_auth_read", "tx_send_sub", "tx_stream_fwd",
            "tx_decode", "tx_read"}
AwaitSites == {"connect", "write_auth", "auth_next", "write_sub",
               "stream_next", "sleep"}

Init ==
    /\ pc = "connect"
    /\ attempt = 0
    /\ authed = FALSE
    /\ batch = <<>>
    /\ out = <<>>
    /\ backoff_ms = 0
    /\ chan = <<>>
    /\ rxAlive = TRUE
    /\ subscription \in Descriptors
    /\ subscribe_json = action_json(subscription)
    /\ frame = <<>>
    /\ wire = <<>>
    /\ produced = <<>>
    /\ observed = <<>>
    /\ fed = <<>>
    /\ inbound = 0
    /\ reason = "none"
    /\ delays = <<>>
    /\ rejections = <<>>
    /\ rejected = FALSE
    /\ afterRun = FALSE

(***************************************************************************)
(* Helpers of the task.                                                    *)
(***************************************************************************)
\* Mutant of Enqueue: a queue that hands out the newest item first.
Enqueue_Front(q, item) == <<item>> \o q

\* tx.send appends at the tail of the queue.
Enqueue(q, item) == Append(q, item)

\* History only: when a session ends, the items it queued become old ones.
Aged(q) == [i \in 1..Len(q) |-> [q[i] EXCEPT !.cur = FALSE]]

\* Mutant of CanSend: a send that does not wait for a free slot.
CanSend_NoWait == out # <<>>

\* tx.send(..).await resolves when a slot is free or the receiver is gone;
\* with the receiver gone it returns Err, which `let _ =` discards.
CanSend == out # <<>> /\ (rxAlive => Len(chan) < ChanCap)
\* Mutant of Deliver: a send that, once resumed, has lost its item.
Deliver_Dropping(q) == q

Deliver(q) == IF rxAlive THEN Enqueue(q, out[1]) ELSE q

\* The task hands an item to tx.send.  (The histories are those of a
\* consumer that holds the stream: they stop when it is dropped.)
Emit(item) ==
    /\ out' = <<item>>
    /\ produced' = IF rxAlive THEN Append(produced, item) ELSE produced
    /\ afterRun' = FALSE

\* History only: the session is over, with q the queue it leaves.
EndSession(q) ==
    /\ chan' = Aged(q)
    /\ wire' = <<>>
    /\ produced' = <<>>
    /\ observed' = <<>>
    /\ fed' = <<>>
    /\ inbound' = 0
    /\ rejected' = FALSE

\* Mutant of Retry: a loop end that queues an error item for a remote Close.
Retry_Reporting(why, q) ==
    /\ attempt' = attempt + 1
    /\ backoff_ms' = Backoff(attempt + 1)
    /\ pc' = "sleep"
    /\ reason' = why
    /\ delays' = Append(delays, Backoff(attempt + 1))
    /\ rejections' = <<>>
    /\ EndSession(IF why = "close" /\ rxAlive /\ Len(q) < ChanCap
                  THEN Append(q, ErrItem("read"))
                  ELSE q)

\* attempt += 1; backoff_ms = ..; sleep(..).await
Retry(why, q) ==
    /\ attempt' = attempt + 1
    /\ backoff_ms' = Backoff(attempt + 1)
    /\ pc' = "sleep"
    /\ reason' = why
    /\ delays' = Append(delays, Backoff(attempt + 1))
    /\ rejections' = IF why = "auth" /\ rejected
                     THEN IF Len(rejections) < MaxRejections
                          THEN Append(rejections, Backoff(attempt + 1))
                          ELSE rejections
                     ELSE <<>>
    /\ EndSession(q)

\* Mutant of AuthScan: a for loop that stops at a Success message and drops
\* what follows it in the batch.
AuthScan_HeadOnly(b, a) ==
    IF b = <<>>
    THEN [stop |-> "end", authed |-> a, item |-> <<>>, rest |-> <<>>]
    ELSE LET m == Head(b) IN
         IF m.variant = "Success" /\ m.msg = "connected"
         THEN [stop |-> "end", authed |-> a, item |-> <<>>, rest |-> <<>>]
         ELSE IF m.variant = "Success" /\ m.msg = "authenticated"
         THEN [stop |-> "end", authed |-> TRUE, item |-> <<>>, rest |-> <<>>]
         ELSE IF m.variant = "Error"
         THEN [stop |-> "error", authed |-> a,
               item |-> <<ErrItem("auth/handshake error")>>, rest |-> <<>>]
         ELSE [stop |-> "fwd", authed |-> a,
               item |-> <<OkItem(m, 2)>>, rest |-> Tail(b)]

\* Mutant of AuthScan: a for loop that forwards every message of the batch.
AuthScan_ForwardAll(b, a) ==
    IF b = <<>>
    THEN [stop |-> "end", authed |-> a, item |-> <<>>, rest |-> <<>>]
    ELSE [stop |-> "fwd", authed |-> a,
          item |-> <<OkItem(Head(b), 2)>>, rest |-> Tail(b)]

\* The `for msg in batch` of step 2, run from its current position to the
\* next tx.send or to the end of the batch.
RECURSIVE AuthScan(_, _)
AuthScan(b, a) ==
    IF b = <<>>
    THEN [stop |-> "end", authed |-> a, item |-> <<>>, rest |-> <<>>]
    ELSE LET m == Head(b) IN
         IF m.variant = "Success" /\ m.msg = "connected"
         THEN AuthScan(Tail(b), a)
         ELSE IF m.variant = "Success" /\ m.msg = "authenticated"
         THEN AuthScan(Tail(b), TRUE)
         ELSE IF m.variant = "Error"
         THEN [stop |-> "error", authed |-> a,
               item |-> <<ErrItem("auth/handshake error")>>, rest |-> <<>>]
         ELSE [stop |-> "fwd", authed |-> a,
               item |-> <<OkItem(m, 2)>>, rest |-> Tail(b)]

\* Items the for loop of step 2 sends for a batch.
RECURSIVE AuthCost(_)
AuthCost(b) ==
    LET r == AuthScan(b, FALSE) IN
    IF r.stop = "end" THEN 0
    ELSE IF r.stop = "error" THEN 1
    ELSE 1 + AuthCost(r.rest)

\* Items an inbound event makes the task send.
Cost(e, streaming) ==
    IF e.kind = "text"
    THEN LET d == from_str(e.txt) IN
         IF ~d.ok THEN 1
         ELSE IF streaming THEN Len(d.batch) ELSE AuthCost(d.batch)
    ELSE IF e.kind = "err" THEN 1 ELSE 0

\* The end-to-end scenario of the test: the frames the server sends.
Scenario ==
    << [kind |-> "text", txt |-> <<WireConnected>>],
       [kind |-> "text", txt |-> <<WireAuthenticated>>],
       [kind |-> "text", txt |-> <<WireAck>>],
       [kind |-> "text", txt |-> <<WireTrade>>] >>

\* History only: inbound counts the events received while they follow Scenario.
Match(e) ==
    IF inbound >= 0 /\ inbound < Len(Scenario) /\ e = Scenario[inbound + 1]
    THEN inbound + 1
    ELSE -1

\* Step 2 resumed with the rest b of the batch and authed = a.
AuthContinue(b, a) ==
    LET r == AuthScan(b, a) IN
    /\ authed' = r.authed
    /\ batch' = r.rest
    /\ IF r.stop = "end"
       THEN /\ out' = <<>>
            /\ UNCHANGED <<produced, afterRun>>
            /\ pc' = IF r.authed THEN "write_sub" ELSE "auth_next"
       ELSE /\ Emit(r.item[1])
            /\ pc' = IF r.stop = "error" THEN "tx_handshake" ELSE "tx_auth_fwd"

\* Mutant of LeaveAuth: a step 2 that goes on to step 3 whatever authed is.
LeaveAuth_Always(q) ==
    /\ pc' = "write_sub"
    /\ chan' = q
    /\ IF authed THEN TRUE ELSE UNCHANGED inbound
    /\ UNCHANGED <<attempt, backoff_ms, reason, delays, rejections, wire,
                   produced, observed, fed, rejected>>

\* The end of the while loop of step 2, by break or by None: `if !authed`.
LeaveAuth(q) ==
    IF authed
    THEN /\ pc' = "write_sub"
         /\ chan' = q
         /\ UNCHANGED <<attempt, backoff_ms, reason, delays, rejections, wire,
                        produced, observed, fed, rejected>>
    ELSE Retry("auth", q)

\* Mutant of SubscribeCommand: a command rendered from an empty descriptor.
SubscribeCommand_Empty == action_json(Subscribe(<<>>, <<>>))

\* The command step 3 writes.
SubscribeCommand == subscribe_json

(***************************************************************************)
(* The task, one action per suspension point.                              *)
(***************************************************************************)
\* Mutant of ConnectOk: a successful connect that keeps the counter.
ConnectOk_KeepsAttempt ==
    /\ pc = "connect"
    /\ pc' = "write_auth"
    /\ afterRun' = (attempt = 3)
    /\ delays' = <<>>
    /\ UNCHANGED <<attempt, authed, batch, out, backoff_ms, chan, rxAlive,
                   subscription, subscribe_json, frame, wire, produced, observed,
                   fed, inbound, reason, rejections, rejected>>

\* connect_async(..).await resolved Ok: attempt = 0.
ConnectOk ==
    /\ pc = "connect"
    /\ attempt' = 0
    /\ pc' = "write_auth"
    /\ afterRun' = (attempt = 3)
    /\ delays' = <<>>
    /\ UNCHANGED <<authed, batch, out, backoff_ms, chan, rxAlive, subscription,
                   subscribe_json, frame, wire, produced, observed, fed, inbound,
                   reason, rejections, rejected>>

\* Mutant of ConnectErr: a connect failure that sleeps without an error item.
ConnectErr_Silent ==
    /\ pc = "connect"
    /\ attempt < MaxAttempt
    /\ out' = <<>>
    /\ Retry("connect", chan)
    /\ UNCHANGED <<authed, batch, rxAlive, subscription, subscribe_json, frame,
                   afterRun>>

\* connect_async(..).await resolved Err: the error is sent first.
ConnectErr ==
    /\ pc = "connect"
    /\ attempt < MaxAttempt
    /\ Emit(ErrItem("connect"))
    /\ pc' = "tx_connect"
    /\ UNCHANGED <<attempt, authed, batch, backoff_ms, chan, rxAlive,
                   subscription, subscribe_json, frame, wire, observed, fed, inbound,
                   reason, delays, rejections, rejected>>

\* Step 1: write.send(auth).await.
WriteAuth ==
    /\ pc = "write_auth"
    /\ \/ /\ wire' = Append(wire, AuthCmd)
          /\ pc' = "auth_next"
          /\ UNCHANGED <<out, produced, afterRun>>
       \/ /\ Emit(ErrItem("send auth"))
          /\ pc' = "tx_send_auth"
          /\ UNCHANGED wire
    /\ UNCHANGED <<attempt, authed, batch, backoff_ms, chan, rxAlive,
                   subscription, subscribe_json, frame, observed, fed, inbound, reason,
                   delays, rejections, rejected>>

\* Step 2: what the body of the while loop does with the event e, up to the
\* next suspension point.
AuthOn(e) ==
    /\ IF e.kind = "text"
       THEN LET d == from_str(e.txt) IN
            /\ IF d.ok
               THEN AuthContinue(d.batch, authed)
               ELSE /\ Emit(ErrItem("decode during auth"))
                    /\ pc' = "tx_auth_decode"
                    /\ UNCHANGED <<authed, batch>>
            /\ inbound' = Match(e)
            /\ UNCHANGED <<attempt, backoff_ms, chan, wire, observed, fed,
                           reason, delays, rejections, rejected>>
       ELSE IF e.kind = "err"
       THEN /\ Emit(ErrItem("read during auth"))
            /\ pc' = "tx_auth_read"
            /\ inbound' = Match(e)
            /\ UNCHANGED <<attempt, authed, batch, backoff_ms, chan, wire,
                           observed, fed, reason, delays, rejections, rejected>>
       ELSE IF e.kind = "other"
       THEN /\ inbound' = Match(e)
            /\ UNCHANGED <<pc, attempt, authed, batch, out, backoff_ms, chan,
                           wire, produced, observed, fed, reason, delays,
                           rejections, rejected, afterRun>>
       ELSE \* Close, or None
            /\ LeaveAuth(chan)
            /\ IF authed THEN inbound' = Match(e) ELSE TRUE
            /\ UNCHANGED <<authed, batch, out, afterRun>>
    /\ UNCHANGED <<rxAlive, subscription, subscribe_json>>

\* Step 2: read.next().await resolved.
AuthNext ==
    /\ pc = "auth_next"
    /\ \E e \in Incoming :
        /\ Len(produced) + Cost(e, FALSE) <= MaxItems
        /\ AuthOn(e)
    /\ UNCHANGED frame

\* Step 3: write.send(subscribe).await.
WriteSub ==
    /\ pc = "write_sub"
    /\ \/ /\ wire' = Append(wire, SubscribeCommand)
          /\ pc' = "stream_next"
          /\ rejections' = <<>>
          /\ UNCHANGED <<out, produced, afterRun>>
       \/ /\ Emit(ErrItem("send subscribe"))
          /\ pc' = "tx_send_sub"
          /\ UNCHANGED <<wire, rejections>>
    /\ UNCHANGED <<attempt, authed, batch, backoff_ms, chan, rxAlive,
                   subscription, subscribe_json, frame, observed, fed, inbound, reason,
                   delays, rejected>>

\* Mutant of StreamOn: a step 4 that takes a server Error message for a failure
\* of the connection, as step 2 does.
StreamOn_ErrorFatal(e) ==
    /\ IF e.kind = "text"
       THEN LET d == from_str(e.txt) IN
            /\ IF d.ok /\ \E i \in 1..Len(d.batch) : d.batch[i].variant = "Error"
               THEN /\ Emit(ErrItem("read"))
                    /\ pc' = "tx_read"
                    /\ UNCHANGED <<batch, fed>>
               ELSE IF d.ok
               THEN /\ fed' = IF rxAlive THEN fed \o d.batch ELSE fed
                    /\ IF d.batch = <<>>
                       THEN UNCHANGED <<pc, batch, out, produced, afterRun>>
                       ELSE /\ Emit(OkItem(Head(d.batch), 4))
                            /\ batch' = Tail(d.batch)
                            /\ pc' = "tx_stream_fwd"
               ELSE /\ Emit(ErrItem("decode"))
                    /\ pc' = "tx_decode"
                    /\ UNCHANGED <<batch, fed>>
            /\ inbound' = Match(e)
            /\ UNCHANGED <<attempt, backoff_ms, chan, wire, observed, reason,
                           delays, rejections, rejected>>
       ELSE IF e.kind = "err"
       THEN /\ Emit(ErrItem("read"))
            /\ pc' = "tx_read"
            /\ inbound' = Match(e)
            /\ UNCHANGED <<attempt, batch, backoff_ms, chan, wire, observed,
                           fed, reason, delays, rejections, rejected>>
       ELSE IF e.kind = "other"
       THEN /\ inbound' = Match(e)
            /\ UNCHANGED <<pc, attempt, batch, out, backoff_ms, chan, wire,
                           produced, observed, fed, reason, delays,
                           rejections, rejected, afterRun>>
       ELSE \* Close, or None: break to step 5
            /\ Retry(IF e.kind = "close" THEN "close" ELSE "eos", chan)
            /\ UNCHANGED <<batch, out, afterRun>>
    /\ UNCHANGED <<authed, rxAlive, subscription, subscribe_json>>

\* Mutant of StreamOn: a step 4 that takes a ping, pong or binary frame for the
\* end of the connection.
StreamOn_OtherBreaks(e) ==
    /\ IF e.kind = "text"
       THEN LET d == from_str(e.txt) IN
            /\ IF d.ok
               THEN /\ fed' = IF rxAlive THEN fed \o d.batch ELSE fed
                    /\ IF d.batch = <<>>
                       THEN UNCHANGED <<pc, batch, out, produced, afterRun>>
                       ELSE /\ Emit(OkItem(Head(d.batch), 4))
                            /\ batch' = Tail(d.batch)
                            /\ pc' = "tx_stream_fwd"
               ELSE /\ Emit(ErrItem("decode"))
                    /\ pc' = "tx_decode"
                    /\ UNCHANGED <<batch, fed>>
            /\ inbound' = Match(e)
            /\ UNCHANGED <<attempt, backoff_ms, chan, wire, observed, reason,
                           delays, rejections, rejected>>
       ELSE IF e.kind = "err"
       THEN /\ Emit(ErrItem("read"))
            /\ pc' = "tx_read"
            /\ inbound' = Match(e)
            /\ UNCHANGED <<attempt, batch, backoff_ms, chan, wire, observed,
                           fed, reason, delays, rejections, rejected>>
       ELSE \* Close, None, or any other frame: break to step 5
            /\ Retry(IF e.kind = "close" THEN "close" ELSE "eos", chan)
            /\ UNCHANGED <<batch, out, afterRun>>
    /\ UNCHANGED <<authed, rxAlive, subscription, subscribe_json>>

\* Step 4: what the body of the while loop does with the event e, up to the
\* next suspension point.
StreamOn(e) ==
    /\ IF e.kind = "text"
       THEN LET d == from_str(e.txt) IN
            /\ IF d.ok
               THEN /\ fed' = IF rxAlive THEN fed \o d.batch ELSE fed
                    /\ IF d.batch = <<>>
                       THEN UNCHANGED <<pc, batch, out, produced, afterRun>>
                       ELSE /\ Emit(OkItem(Head(d.batch), 4))
                            /\ batch' = Tail(d.batch)
                            /\ pc' = "tx_stream_fwd"
               ELSE /\ Emit(ErrItem("decode"))
                    /\ pc' = "tx_decode"
                    /\ UNCHANGED <<batch, fed>>
            /\ inbound' = Match(e)
            /\ UNCHANGED <<attempt, backoff_ms, chan, wire, observed, reason,
                           delays, rejections, rejected>>
       ELSE IF e.kind = "err"
       THEN /\ Emit(ErrItem("read"))
            /\ pc' = "tx_read"
            /\ inbound' = Match(e)
            /\ UNCHANGED <<attempt, batch, backoff_ms, chan, wire, observed,
                           fed, reason, delays, rejections, rejected>>
       ELSE IF e.kind = "other"
       THEN /\ inbound' = Match(e)
            /\ UNCHANGED <<pc, attempt, batch, out, backoff_ms, chan, wire,
                           produced, observed, fed, reason, delays,
                           rejections, rejected, afterRun>>
       ELSE \* Close, or None: break to step 5
            /\ Retry(IF e.kind = "close" THEN "close" ELSE "eos", chan)
            /\ UNCHANGED <<batch, out, afterRun>>
    /\ UNCHANGED <<authed, rxAlive, subscription, subscribe_json>>

\* Step 4: read.next().await resolved.
StreamNext ==
    /\ pc = "stream_next"
    /\ \E e \in Incoming :
        /\ Len(produced) + Cost(e, TRUE) <= MaxItems
        /\ StreamOn(e)
    /\ UNCHANGED frame

(***************************************************************************)
(* tx.send(..).await resolved, site by site, and what follows it up to the *)
(* next suspension point.                                                  *)
(***************************************************************************)
\* After the connect error: attempt += 1, sleep.
TxConnect ==
    /\ pc = "tx_connect"
    /\ CanSend
    /\ out' = <<>>
    /\ Retry("connect", Deliver(chan))
    /\ UNCHANGED <<authed, batch, rxAlive, subscription, subscribe_json, frame,
                   afterRun>>

\* After the "send auth" error: `continue`, straight to the top of the loop.
TxSendAuth ==
    /\ pc = "tx_send_auth"
    /\ CanSend
    /\ out' = <<>>
    /\ pc' = "connect"
    /\ EndSession(Deliver(chan))
    /\ rejections' = <<>>
    /\ UNCHANGED <<attempt, authed, batch, backoff_ms, rxAlive, subscription,
                   subscribe_json, frame, reason, delays, afterRun>>

\* Mutant of TxHandshake: an Error arm that leaves authed as it is.
TxHandshake_KeepsAuthed ==
    /\ pc = "tx_handshake"
    /\ CanSend
    /\ chan' = Deliver(chan)
    /\ out' = <<>>
    /\ batch' = <<>>
    /\ rejected' = TRUE
    /\ pc' = IF authed THEN "write_sub" ELSE "auth_next"
    /\ UNCHANGED <<attempt, authed, backoff_ms, rxAlive, subscription,
                   subscribe_json, frame, wire, produced, observed, fed,
                   inbound, reason, delays, rejections, afterRun>>

\* After the handshake error: authed = false; break (out of the for loop),
\* then `if authed { break; }` is not taken and the while loop reads on.
TxHandshake ==
    /\ pc = "tx_handshake"
    /\ CanSend
    /\ chan' = Deliver(chan)
    /\ out' = <<>>
    /\ authed' = FALSE
    /\ batch' = <<>>
    /\ rejected' = TRUE
    /\ pc' = "auth_next"
    /\ UNCHANGED <<attempt, backoff_ms, rxAlive, subscription, subscribe_json, frame,
                   wire, produced, observed, fed, inbound, reason, delays,
                   rejections, afterRun>>

\* After a message forwarded during step 2: the for loop goes on.
TxAuthFwd ==
    /\ pc = "tx_auth_fwd"
    /\ CanSend
    /\ chan' = Deliver(chan)
    /\ AuthContinue(batch, authed)
    /\ UNCHANGED <<attempt, backoff_ms, rxAlive, subscription, subscribe_json, frame,
                   wire, observed, fed, inbound, reason, delays, rejections,
                   rejected>>

\* Mutant of TxAuthFail: an error of step 2 after which the while loop reads
\* on.
TxAuthFail_ReadsOn ==
    /\ pc \in {"tx_auth_decode", "tx_auth_read"}
    /\ CanSend
    /\ chan' = Deliver(chan)
    /\ out' = <<>>
    /\ pc' = "auth_next"
    /\ UNCHANGED <<attempt, authed, batch, backoff_ms, rxAlive, subscription,
                   subscribe_json, frame, wire, produced, observed, fed,
                   inbound, reason, delays, rejections, rejected, afterRun>>

\* After "decode during auth" or "read during auth": break, then `if !authed`.
TxAuthFail ==
    /\ pc \in {"tx_auth_decode", "tx_auth_read"}
    /\ CanSend
    /\ out' = <<>>
    /\ LeaveAuth(Deliver(chan))
    /\ IF authed THEN UNCHANGED inbound ELSE TRUE
    /\ UNCHANGED <<authed, batch, rxAlive, subscription, subscribe_json, frame,
                   afterRun>>

\* After the "send subscribe" error: attempt += 1, sleep.
TxSendSub ==
    /\ pc = "tx_send_sub"
    /\ CanSend
    /\ out' = <<>>
    /\ Retry("send_sub", Deliver(chan))
    /\ UNCHANGED <<authed, batch, rxAlive, subscription, subscribe_json, frame,
                   afterRun>>

\* After a message forwarded in step 4: the next message of the batch, or
\* back to read.next().
TxStreamFwd ==
    /\ pc = "tx_stream_fwd"
    /\ CanSend
    /\ chan' = Deliver(chan)
    /\ IF batch = <<>>
       THEN /\ out' = <<>>
            /\ pc' = "stream_next"
            /\ UNCHANGED <<batch, produced, afterRun>>
       ELSE /\ Emit(OkItem(Head(batch), 4))
            /\ batch' = Tail(batch)
            /\ UNCHANGED pc
    /\ UNCHANGED <<attempt, authed, backoff_ms, rxAlive, subscription,
                   subscribe_json, frame, wire, observed, fed, inbound, reason, delays,
                   rejections, rejected>>

\* Mutant of TxDecode: a decode error that ends the connection.
TxDecode_Reconnect ==
    /\ pc = "tx_decode"
    /\ CanSend
    /\ out' = <<>>
    /\ Retry("read", Deliver(chan))
    /\ UNCHANGED <<authed, batch, rxAlive, subscription, subscribe_json, frame,
                   afterRun>>

\* After the "decode" error of step 4: the while loop reads on.
TxDecode ==
    /\ pc = "tx_decode"
    /\ CanSend
    /\ chan' = Deliver(chan)
    /\ out' = <<>>
    /\ pc' = "stream_next"
    /\ UNCHANGED <<attempt, authed, batch, backoff_ms, rxAlive, subscription,
                   subscribe_json, frame, wire, produced, observed, fed, inbound,
                   reason, delays, rejections, rejected, afterRun>>

\* Mutant of TxRead: a read error that ends the task.
TxRead_Exits ==
    /\ pc = "tx_read"
    /\ CanSend
    /\ chan' = Deliver(chan)
    /\ out' = <<>>
    /\ pc' = "exited"
    /\ UNCHANGED <<attempt, authed, batch, backoff_ms, rxAlive, subscription,
                   subscribe_json, frame, wire, produced, observed, fed,
                   inbound, reason, delays, rejections, rejected, afterRun>>

\* After the "read" error of step 4: break to step 5.
TxRead ==
    /\ pc = "tx_read"
    /\ CanSend
    /\ out' = <<>>
    /\ Retry("read", Deliver(chan))
    /\ UNCHANGED <<authed, batch, rxAlive, subscription, subscribe_json, frame,
                   afterRun>>

\* Mutant of SleepDone: a loop that stops retrying after three failures.
SleepDone_GivesUp ==
    /\ pc = "sleep"
    /\ attempt < 3
    /\ pc' = "connect"
    /\ authed' = FALSE
    /\ backoff_ms' = 0
    /\ reason' = "none"
    /\ UNCHANGED <<attempt, batch, out, chan, rxAlive, subscription,
                   subscribe_json, frame, wire, produced, observed, fed, inbound,
                   delays, rejections, rejected, afterRun>>

\* sleep(..).await resolved: `continue`, or the end of the loop body; the
\* locals of the body are gone.
SleepDone ==
    /\ pc = "sleep"
    /\ pc' = "connect"
    /\ authed' = FALSE
    /\ backoff_ms' = 0
    /\ reason' = "none"
    /\ UNCHANGED <<attempt, batch, out, chan, rxAlive, subscription,
                   subscribe_json, frame, wire, produced, observed, fed, inbound,
                   delays, rejections, rejected, afterRun>>

(***************************************************************************)
(* The consumer of the ReceiverStream.                                     *)
(***************************************************************************)
\* Mutant of Recv: a consumer that is handed the newest item of the queue.
Recv_Newest ==
    /\ rxAlive
    /\ chan # <<>>
    /\ chan' = SubSeq(chan, 1, Len(chan) - 1)
    /\ observed' = IF chan[Len(chan)].cur
                   THEN Append(observed, chan[Len(chan)])
                   ELSE observed
    /\ UNCHANGED <<pc, attempt, authed, batch, out, backoff_ms, rxAlive,
                   subscription, subscribe_json, frame, wire, produced, fed,
                   inbound, reason, delays, rejections, rejected, afterRun>>

\* stream.next().await takes the head of the queue.
Recv ==
    /\ rxAlive
    /\ chan # <<>>
    /\ chan' = Tail(chan)
    /\ observed' = IF Head(chan).cur THEN Append(observed, Head(chan)) ELSE observed
    /\ UNCHANGED <<pc, attempt, authed, batch, out, backoff_ms, rxAlive,
                   subscription, subscribe_json, frame, wire, produced, fed, inbound,
                   reason, delays, rejections, rejected, afterRun>>

\* The consumer drops the stream: the receiver closes and its queue is freed.
DropRx ==
    /\ rxAlive
    /\ rxAlive' = FALSE
    /\ chan' = <<>>
    /\ observed' = <<>>
    /\ produced' = <<>>
    /\ fed' = <<>>
    /\ UNCHANGED <<pc, attempt, authed, batch, out, backoff_ms, subscription,
                   subscribe_json, frame, wire, inbound, reason, delays, rejections,
                   rejected, afterRun>>

Task ==
    \/ ConnectOk
    \/ ConnectErr
    \/ WriteAuth
    \/ AuthNext
    \/ WriteSub
    \/ StreamNext
    \/ TxConnect
    \/ TxSendAuth
    \/ TxHandshake
    \/ TxAuthFwd
    \/ TxAuthFail
    \/ TxSendSub
    \/ TxStreamFwd
    \/ TxDecode
    \/ TxRead
    \/ SleepDone

Next == Task \/ Recv \/ DropRx

Spec == Init /\ [][Next]_vars

TypeOK ==
    /\ pc \in TxSites \cup AwaitSites
    /\ attempt \in 0..MaxAttempt
    /\ authed \in BOOLEAN
    /\ Len(chan) <= ChanCap
    /\ Len(out) <= 1
    /\ (out # <<>>) = (pc \in TxSites)
    /\ Len(produced) <= MaxItems + 1

(***************************************************************************)
(* Fairness.  The runtime polls the task whenever the future it awaits is  *)
(* ready: the timer fires, the transport resolves a connect, a write or a  *)
(* read, and tx.send resolves once the channel has room or the receiver is *)
(* gone.  Nothing obliges the consumer to poll the stream.                 *)
(***************************************************************************)
FairSpec == Spec /\ WF_vars(Task)

\* The consumer keeps polling the stream for as long as it holds it.
ConsumerPulls == WF_vars(Recv)

(***************************************************************************)
(* Vocabulary of the properties.                                           *)
(***************************************************************************)
AuthSites == {"auth_next", "tx_handshake", "tx_auth_fwd", "tx_auth_decode",
              "tx_auth_read", "write_sub", "tx_send_sub"}
StreamSites == {"stream_next", "tx_stream_fwd", "tx_decode", "tx_read"}

\* The suspension points between a failure and the next connect attempt.
Failed == pc \in {"tx_connect", "tx_send_auth", "tx_auth_decode",
                  "tx_auth_read", "tx_send_sub", "tx_read", "sleep"}

\* The sends of an error that ends the session.
Failed_TxSites == {"tx_connect", "tx_send_auth", "tx_auth_decode",
                   "tx_auth_read", "tx_send_sub", "tx_read"}

\* The items of q that the running session produced.
Cur(q) == SelectSeq(q, LAMBDA it : it.cur)
\* The Ok items of q that step 4 forwarded.
StreamOks(q) == SelectSeq(q, LAMBDA it : it.ok /\ it.step = 4)
\* The delay the documentation gives for the n-th consecutive failure:
\* 250 ms at first, doubling on each failure, capped at 16 s.
DocumentedDelay(n) == BackoffBaseMs * (2 ^ Min(n - 1, BackoffCapExp))

(***************************************************************************)
(* C1.  For consecutive failures 1..8 with no successful connect in        *)
(* between, the delays slept are 250, 500, 1000, 2000, 4000, 8000, 16000,  *)
(* 16000 ms.  The code increments attempt before it computes the delay, so *)
(* the first delay is 500 ms and the cap is reached at the sixth failure.  *)
(***************************************************************************)
C1_DelaysAsDocumented ==
    \A n \in 1..Len(delays) : delays[n] = DocumentedDelay(n)

\* What the code computes instead: 500, 1000, .., 16000, 16000, 16000.
DelaysAsComputed ==
    \A n \in 1..Len(delays) : delays[n] = Backoff(n)

(***************************************************************************)
(* C2.  After failures have raised attempt to 3, a successful connection   *)
(* resets attempt to 0, so that the delay slept after the next failure is  *)
(* 250 ms.  The counter is reset, but the next delay is 500 ms.            *)
(***************************************************************************)
C2_ResetTo250 ==
    /\ pc \in StreamSites => attempt = 0
    /\ (afterRun /\ pc = "sleep" /\ reason \in {"close", "eos"})
           => backoff_ms = BackoffBaseMs

C4_StreamOrder ==
    (rxAlive /\ pc \in StreamSites) =>
        StreamOks(observed \o Cur(chan) \o out)
            \o [i \in 1..Len(batch) |-> OkItem(batch[i], 4)]
          = [i \in 1..Len(fed) |-> OkItem(fed[i], 4)]

\* Four different messages, fed in frames of at most MaxBatch, all pulled.
C4_Witness ==
    /\ rxAlive
    /\ pc = "stream_next"
    /\ Len(fed) = 4
    /\ Cardinality({fed[i] : i \in 1..4}) = 4
    /\ StreamOks(observed) = [i \in 1..4 |-> OkItem(fed[i], 4)]

(***************************************************************************)
(* C5.  As claimed: when the server sends a Close frame in Streaming, the  *)
(* task hands an error item for that termination to the channel.           *)
(***************************************************************************)
C5_CloseYieldsError ==
    [][(pc = "stream_next" /\ reason' = "close")
         => \/ (out' # <<>> /\ ~out'[1].ok)
            \/ (Len(chan') = Len(chan) + 1 /\ ~chan'[Len(chan')].ok)]_vars

(***************************************************************************)
(* C5, amended.  A Close frame in Streaming ends the connection with no    *)
(* item at all: the task goes to the backoff sleep and the channel gets    *)
(* nothing.  Only a read error ends Streaming with an error item ("read"), *)
(* and that item is queued before the task sleeps, so ahead of every item  *)
(* of the following connection: in the channel, items of earlier           *)
(* connections precede those of the running one.                           *)
(***************************************************************************)
C5_CloseIsSilent ==
    [][/\ (pc = "stream_next" /\ reason' = "close")
            => (out' = <<>> /\ pc' = "sleep" /\ chan' = Aged(chan))
       /\ (pc = "tx_read" /\ pc' = "sleep" /\ rxAlive)
            => chan' = Aged(Append(chan, ErrItem("read")))
       /\ \A i, j \in 1..Len(chan') : (i < j /\ chan'[i].cur) => chan'[j].cur
      ]_vars

\* The task sleeps after a Close, with messages of that connection queued
\* and no error item behind them.
C5_Witness ==
    /\ pc = "sleep"
    /\ reason = "close"
    /\ rxAlive
    /\ chan # <<>>
    /\ \A i \in 1..Len(chan) : chan[i].ok

(***************************************************************************)
(* C6.  After every reconnect the handshake is replayed with no caller     *)
(* action: on each connection the task writes the auth command and, once   *)
(* authenticated, the subscribe command rendered from the descriptor at    *)
(* stream creation, and what the connection produces goes to the one       *)
(* channel the consumer reads.                                             *)
(***************************************************************************)
C6_HandshakeReplayed ==
    /\ pc \in AuthSites => wire = <<AuthCmd>>
    /\ pc \in StreamSites => wire = <<AuthCmd, action_json(subscription)>>
    /\ pc \in StreamSites \cup {"write_sub", "tx_send_sub"} => authed
    /\ rxAlive => produced = observed \o Cur(chan) \o out

\* A reconnect: an item of an earlier connection is still queued, and a
\* message of the new connection is queued behind it.
C6_Witness ==
    /\ pc \in StreamSites
    /\ wire = <<AuthCmd, action_json(subscription)>>
    /\ Len(chan) = 2
    /\ ~chan[1].cur
    /\ chan[2].cur /\ chan[2].ok /\ chan[2].step = 4

(***************************************************************************)
(* C7.  End to end: with the descriptor subscribing trades for BTC/USD and *)
(* a server that sends success/connected, success/authenticated, the       *)
(* subscription ack and one BTC/USD trade, the consumer is given the ack   *)
(* and then the trade; the two Success messages produce no item.           *)
(***************************************************************************)
C7_EndToEnd ==
    (/\ rxAlive
     /\ inbound >= 0
     /\ pc \in {"auth_next", "tx_auth_fwd", "write_sub", "stream_next",
                "tx_stream_fwd"})
    => LET want == <<OkItem(Ack, 4), OkItem(Trade, 4)>>
           n == IF inbound > 2 THEN inbound - 2 ELSE 0
       IN  observed \o Cur(chan) \o out = SubSeq(want, 1, n)

\* The four frames were received and the consumer has pulled both items.
C7_Witness ==
    /\ inbound = Len(Scenario)
    /\ subscription.trades = <<"BTC/USD">>
    /\ observed = <<OkItem(Ack, 4), OkItem(Trade, 4)>>

(***************************************************************************)
(* C8.  When an Error message is observed during step 2, the session is    *)
(* over: no further frame of the connection is read, no subscribe command  *)
(* is written on it, and the task goes to the backoff.  The code's break   *)
(* leaves the for loop only, and the while loop reads on.                  *)
(***************************************************************************)
C8_ErrorEndsSession ==
    rejected => pc \notin {"auth_next", "tx_auth_fwd", "tx_handshake",
                           "write_sub", "tx_send_sub"} \cup StreamSites

(***************************************************************************)
(* C9.  Every end of a session increments attempt and is followed by a     *)
(* backoff sleep: a connect attempt that follows a session follows a       *)
(* sleep.  The failed write of the auth command does neither.              *)
(***************************************************************************)
C9_SleepBeforeConnect ==
    [][/\ (pc # "connect" /\ pc' = "connect") => pc = "sleep"
       /\ (pc \in Failed_TxSites /\ pc' \notin StreamSites \cup AuthSites)
            => (pc' = "sleep" /\ attempt' = attempt + 1)
      ]_vars

(***************************************************************************)
(* C10.  Consecutive handshake rejections, each after a successful         *)
(* connect, sleep the same delays as as many consecutive connect failures. *)
(* attempt is reset by each successful connect, so every rejection sleeps  *)
(* the first delay.                                                        *)
(***************************************************************************)
C10_RejectionsBackOff ==
    \A n \in 1..Len(rejections) : rejections[n] = Backoff(n)

(***************************************************************************)
(* C11.  In step 4 a text frame that fails to decode yields exactly one    *)
(* Err item ("decode") and does not end Streaming: the task stays on the   *)
(* same connection, attempt is unchanged, no reconnect is started and the  *)
(* next frame is read.                                                     *)
(***************************************************************************)
C11_DecodeErrorNotFatal ==
    [][/\ (pc = "stream_next" /\ pc' = "tx_decode")
            => /\ out' = <<ErrItem("decode")>>
               /\ batch' = batch
               /\ <<attempt, wire, fed>>' = <<attempt, wire, fed>>
       /\ (pc = "tx_decode" /\ pc' # "tx_decode")
            => /\ pc' = "stream_next"
               /\ out' = <<>>
               /\ rxAlive => chan' = Append(chan, ErrItem("decode"))
               /\ <<attempt, wire, produced>>' = <<attempt, wire, produced>>
      ]_vars

\* After a decode error the same connection has delivered a further message.
C11_Witness ==
    /\ rxAlive
    /\ pc = "stream_next"
    /\ attempt = 0
    /\ Len(observed) = 3
    /\ observed[1].ok /\ observed[1].step = 4
    /\ observed[2] = ErrItem("decode")
    /\ observed[3].ok /\ observed[3].step = 4

(***************************************************************************)
(* C12.  Dropping the consumer eventually stops the producer: after the    *)
(* receiver is dropped the task eventually exits, and no connect, send or  *)
(* read follows.  The code discards the Err that tx.send returns once the  *)
(* receiver is gone (`let _ =`) and has no other exit from the loop.       *)
(***************************************************************************)
C12_DropStopsTask == (~rxAlive) ~> (~ENABLED Task)

\* What the code does instead: with the receiver gone the task can always
\* take its next step.
TaskOutlivesConsumer == (~rxAlive) => ENABLED Task

(***************************************************************************)
(* C13.  No failure is fatal to the stream: while the consumer holds the   *)
(* stream the task is never gone, so the stream never ends.  After any     *)
(* sequence of connect, auth, decode, read and send failures the task is   *)
(* either able to take its next step or suspended in tx.send on a full     *)
(* channel that the consumer can empty.                                    *)
(***************************************************************************)
C13_NothingIsFatal ==
    rxAlive =>
        /\ pc \in TxSites \cup AwaitSites
        /\ \/ ENABLED Task
           \/ (pc \in TxSites /\ Len(chan) = ChanCap /\ ENABLED Recv)

\* An error item of an ended connection, followed in the channel by a
\* message of the next one.
C13_Witness ==
    /\ rxAlive
    /\ Len(chan) = 2
    /\ chan[1] = [ErrItem("read") EXCEPT !.cur = FALSE]
    /\ chan[2].ok /\ chan[2].cur

(***************************************************************************)
(* C14.  The output channel never holds more items than its capacity       *)
(* (1024 in the code, ChanCap here), and when it is full the producer is   *)
(* suspended in send rather than dropping: while the consumer is alive,    *)
(* every item the session has produced is exactly once either pulled by    *)
(* the consumer, queued, or still held by the pending send.                *)
(***************************************************************************)
C14_BoundedNoLoss ==
    /\ Len(chan) <= ChanCap
    /\ (out # <<>>) = (pc \in TxSites)
    /\ rxAlive =>
         /\ observed \o Cur(chan) \o out = produced
         /\ (pc \in TxSites /\ Len(chan) = ChanCap) => ~ENABLED Task

\* The channel is full of items of the running connection and the producer
\* holds the next one.
C14_Witness ==
    /\ rxAlive
    /\ Len(Cur(chan)) = ChanCap
    /\ pc = "tx_stream_fwd"
    /\ Len(produced) = Len(observed) + ChanCap + 1

(***************************************************************************)
(* Rendering of the subscribe command, on its own: the descriptor ranges   *)
(* over lists of symbols, stream creation renders it (action_json, before  *)
(* the task is spawned) and step 3 writes the rendered command.            *)
(***************************************************************************)
\* Longest list of symbols of a channel.
MaxSyms == 2

Symbols == {"BTC/USD", "ETH/USD"}
SymbolLists == SeqsUpTo(Symbols, MaxSyms)
ShortLists == {<<>>, <<"BTC/USD">>}

\* The fields of struct Subscribe, and the key that carries each on the wire.
Fields == {"trades", "quotes", "bars", "daily_bars", "updated_bars",
           "orderbooks"}
WireKey(f) ==
    CASE f = "daily_bars" -> "dailyBars"
      [] f = "updated_bars" -> "updatedBars"
      [] OTHER -> f

AllDescriptors ==
    { [trades |-> t, quotes |-> q, bars |-> b, daily_bars |-> d,
       updated_bars |-> u, orderbooks |-> o] :
        t \in SymbolLists, q \in SymbolLists, b \in ShortLists,
        d \in ShortLists, u \in ShortLists, o \in ShortLists }

\* The variables the rendering does not touch.
RenderRest == <<attempt, authed, batch, out, backoff_ms, chan, rxAlive, frame,
                produced, observed, fed, inbound, reason, delays, rejections,
                rejected, afterRun>>

RenderInit ==
    /\ pc = "create"
    /\ subscription \in AllDescriptors
    /\ subscribe_json = [action |-> "none"]
    /\ wire = <<>>
    /\ attempt = 0
    /\ authed = FALSE
    /\ batch = <<>>
    /\ out = <<>>
    /\ backoff_ms = 0
    /\ chan = <<>>
    /\ rxAlive = TRUE
    /\ frame = <<>>
    /\ produced = <<>>
    /\ observed = <<>>
    /\ fed = <<>>
    /\ inbound = 0
    /\ reason = "none"
    /\ delays = <<>>
    /\ rejections = <<>>
    /\ rejected = FALSE
    /\ afterRun = FALSE

\* let subscribe_json = params.subscription.action_json();
Render ==
    /\ pc = "create"
    /\ subscribe_json' = action_json(subscription)
    /\ pc' = "rendered"
    /\ UNCHANGED <<subscription, wire>>
    /\ UNCHANGED RenderRest

\* Steps 1 and 3 on a connection: the auth command, then the rendered command.
WriteCommands ==
    /\ pc = "rendered"
    /\ wire' = <<AuthCmd, SubscribeCommand>>
    /\ pc' = "subscribed"
    /\ UNCHANGED <<subscription, subscribe_json>>
    /\ UNCHANGED RenderRest

RenderNext == Render \/ WriteCommands

RenderSpec == RenderInit /\ [][RenderNext]_vars

(***************************************************************************)
(* C15.  In the subscribe command written on the wire, a channel whose     *)
(* list of symbols is empty is omitted and never sent as an empty list.    *)
(* action_json builds the object with json!, which names every channel.    *)
(***************************************************************************)
C15_EmptyChannelsOmitted ==
    pc = "subscribed" =>
        \A f \in Fields :
            subscription[f] = <<>> => WireKey(f) \notin DOMAIN wire[2]

\* What the code sends instead: every channel, empty or not.
EveryChannelSent ==
    pc = "subscribed" =>
        DOMAIN wire[2] = {"action"} \cup {WireKey(f) : f \in Fields}

(***************************************************************************)
(* C16.  Subscribe round trip: for every descriptor the rendered command   *)
(* has action = "subscribe" and, for every channel that holds symbols, the *)
(* field of that channel is exactly the list of symbols in its original    *)
(* order, in the rendered value and in the command written on the wire;    *)
(* rendering leaves the descriptor as it was.                              *)
(***************************************************************************)
C16_SubscribeRoundTrip ==
    [][/\ subscription' = subscription
       /\ pc' \in {"rendered", "subscribed"} =>
            LET cmd == IF pc' = "rendered" THEN subscribe_json' ELSE wire'[2]
            IN  /\ cmd.action = "subscribe"
                /\ \A f \in Fields :
                     subscription[f] # <<>> =>
                        /\ WireKey(f) \in DOMAIN cmd
                        /\ cmd[WireKey(f)] = subscription[f]
      ]_vars

\* Two symbols in an order that is not the sorted one, a repeated symbol,
\* and a renamed channel, as written on the wire.
C16_Witness ==
    /\ pc = "subscribed"
    /\ subscription.trades = <<"ETH/USD", "BTC/USD">>
    /\ subscription.quotes = <<"BTC/USD", "BTC/USD">>
    /\ subscription.daily_bars = <<"BTC/USD">>
    /\ wire[2].trades = <<"ETH/USD", "BTC/USD">>
    /\ wire[2].quotes = <<"BTC/USD", "BTC/USD">>
    /\ wire[2].dailyBars = <<"BTC/USD">>

(***************************************************************************)
(* One text frame on a fresh connection, on its own: the frame ranges over *)
(* the text frames, the task reads it in step 2 or in step 4, and the      *)
(* sends it makes resolve as the consumer pulls.                           *)
(***************************************************************************)
DecodeInit ==
    /\ frame \in TextFrames
    /\ subscription \in Descriptors
    /\ subscribe_json = action_json(subscription)
    /\ \/ pc = "auth_next" /\ authed = FALSE /\ wire = <<AuthCmd>>
       \/ /\ pc = "stream_next"
          /\ authed = TRUE
          /\ wire = <<AuthCmd, subscribe_json>>
    /\ attempt = 0
    /\ batch = <<>>
    /\ out = <<>>
    /\ backoff_ms = 0
    /\ chan = <<>>
    /\ rxAlive = TRUE
    /\ produced = <<>>
    /\ observed = <<>>
    /\ fed = <<>>
    /\ inbound = 0
    /\ reason = "none"
    /\ delays = <<>>
    /\ rejections = <<>>
    /\ rejected = FALSE
    /\ afterRun = FALSE

\* read.next().await of step 2 resolves to the frame.
ReadInAuth ==
    /\ pc = "auth_next"
    /\ inbound = 0
    /\ AuthOn(frame)
    /\ UNCHANGED frame

\* read.next().await of step 4 resolves to the frame.
ReadInStream ==
    /\ pc = "stream_next"
    /\ inbound = 0
    /\ StreamOn(frame)
    /\ UNCHANGED frame

DecodeNext ==
    \/ ReadInAuth
    \/ ReadInStream
    \/ TxHandshake
    \/ TxAuthFwd
    \/ TxAuthFail
    \/ TxStreamFwd
    \/ TxDecode
    \/ Recv

DecodeSpec == DecodeInit /\ [][DecodeNext]_vars

\* The frame has been read in step 4 and every send it caused has resolved.
StreamFrameDone == Len(wire) = 2 /\ pc = "stream_next" /\ inbound # 0
\* The frame has been read and decoded in step 2 and every send it caused
\* has resolved.
AuthFrameDone ==
    /\ Len(wire) = 1
    /\ pc \in {"auth_next", "write_sub"}
    /\ inbound # 0
    /\ from_str(frame.txt).ok

(***************************************************************************)
(* C17.  A frame element with an unrecognized tag fails the decode of that *)
(* message only: the well-formed elements of the same frame are delivered. *)
(* The code decodes the frame as one Vec<StockMsg>, so one unrecognized    *)
(* tag fails the whole frame.                                              *)
(***************************************************************************)
C17_PerMessageDecode ==
    StreamFrameDone =>
        \A i \in 1..Len(frame.txt) :
            VariantOf(frame.txt[i].T) # "unknown" =>
                \E j \in 1..Len(produced) :
                    produced[j] = OkItem(DecodeElem(frame.txt[i]), 4)

\* What the code does instead: one error item for the frame, nothing else.
FrameFailsWhole ==
    (StreamFrameDone /\ \E i \in 1..Len(frame.txt) :
                            VariantOf(frame.txt[i].T) = "unknown")
    => produced = <<ErrItem("decode")>>

(***************************************************************************)
(* Vocabulary of step 2.                                                   *)
(***************************************************************************)
\* A decoded message that step 2 has no arm for but the last one.
Other(m) ==
    /\ ~(m.variant = "Success" /\ m.msg \in {"connected", "authenticated"})
    /\ m.variant # "Error"
\* The messages of b that precede its first Error message.
BeforeError(b) ==
    LET errs == {i \in 1..Len(b) : b[i].variant = "Error"}
        stop == IF errs = {} THEN Len(b) + 1
                ELSE CHOOSE i \in errs : \A k \in errs : i <= k
    IN  SubSeq(b, 1, stop - 1)
\* The Ok items step 2 makes of the messages of b.
Forwarded(b) ==
    LET o == SelectSeq(b, Other) IN [i \in 1..Len(o) |-> OkItem(o[i], 2)]
\* The Ok items among those produced.
OkOnly(q) == SelectSeq(q, LAMBDA it : it.ok)

(***************************************************************************)
(* C20.  As claimed: in step 2 every decoded message that is neither a     *)
(* "connected" Success, an "authenticated" Success nor an Error is         *)
(* forwarded as an Ok item, whatever its position in the frame.  The break *)
(* of the Error arm leaves the for loop, and the messages that follow an   *)
(* Error in the same frame are dropped.                                    *)
(***************************************************************************)
C20_AuthForwardsAll ==
    AuthFrameDone =>
        OkOnly(produced) = Forwarded(from_str(frame.txt).batch)

(***************************************************************************)
(* C20, amended.  In step 2 every decoded message that is neither a        *)
(* "connected" Success, an "authenticated" Success nor an Error, and that  *)
(* no Error message precedes in its frame, is forwarded as an Ok item, in  *)
(* order; the messages after an Error in the same frame are dropped.  A    *)
(* frame holding only the "connected" Success produces no item and leaves  *)
(* the task reading in step 2.                                             *)
(***************************************************************************)
C20_AuthForwardsUpToError ==
    AuthFrameDone =>
        /\ OkOnly(produced) = Forwarded(BeforeError(from_str(frame.txt).batch))
        /\ observed \o chan = produced
        /\ frame.txt = <<WireConnected>> =>
              (produced = <<>> /\ pc = "auth_next" /\ ~authed)

\* A trade in second position, after the "connected" Success, pulled by the
\* consumer while the task is still in step 2.
C20_Witness ==
    /\ AuthFrameDone
    /\ frame.txt = <<WireConnected, WireTrade>>
    /\ pc = "auth_next"
    /\ observed = <<OkItem(Trade, 2)>>

(***************************************************************************)
(* C18.  For every value of the attempt counter the backoff delay is at    *)
(* most 16000 ms (250 ms times 2^6): the exponent is clamped to 6, so the  *)
(* delay stops growing once the cap is reached, and the shift and the      *)
(* product stay far below the range of u64.                                *)
(***************************************************************************)
C18_DelayCapped ==
    LET cap == BackoffBaseMs * (2 ^ BackoffCapExp) IN
    /\ cap = 16000
    /\ \A a \in (0..MaxAttempt) \cup {2147483647} :
         /\ Backoff(a) <= cap
         /\ a >= BackoffCapExp => Backoff(a) = cap
    /\ pc = "sleep" =>
         /\ backoff_ms = Backoff(attempt)
         /\ backoff_ms <= cap
    /\ \A n \in 1..Len(delays) : delays[n] <= cap

\* Two consecutive failures past the cap sleep the same 16 s.
C18_Witness ==
    /\ pc = "sleep"
    /\ attempt = MaxAttempt
    /\ backoff_ms = 16000
    /\ Len(delays) >= 2
    /\ delays[Len(delays) - 1] = 16000
    /\ delays[Len(delays)] = 16000

(***************************************************************************)
(* C19.  Each failed connect attempt produces exactly one Err item         *)
(* ("connect"), enqueued before the backoff sleep and so before the next   *)
(* connect attempt, and nothing is written on the socket for that attempt. *)
(***************************************************************************)
C19_ConnectErrorOnce ==
    [][/\ (pc = "connect" /\ pc' \notin {"connect", "write_auth"})
            => /\ pc' = "tx_connect"
               /\ out' = <<ErrItem("connect")>>
               /\ chan' = chan
               /\ wire' = <<>>
       /\ (pc = "tx_connect" /\ pc' # "tx_connect")
            => /\ pc' = "sleep"
               /\ out' = <<>>
               /\ attempt' = attempt + 1
               /\ rxAlive =>
                    chan' = Aged(Append(chan, ErrItem("connect")))
               /\ wire' = <<>>
       /\ pc' \in {"connect", "tx_connect", "sleep"} => wire' = <<>>
      ]_vars

\* Two failed connect attempts in a row: the two error items are queued and
\* the task sleeps before the third attempt.
C19_Witness ==
    /\ pc = "sleep"
    /\ reason = "connect"
    /\ attempt = 2
    /\ rxAlive
    /\ chan = <<[ErrItem("connect") EXCEPT !.cur = FALSE],
                [ErrItem("connect") EXCEPT !.cur = FALSE]>>

(***************************************************************************)
(* C22.  Right after every successful connect the attempt counter is 0,    *)
(* whatever its value before, and it stays 0 through steps 1 to 4 on that  *)
(* connection: it is 0 at every suspension point but the connect itself,   *)
(* the send of the connect error and the backoff sleep.                    *)
(***************************************************************************)
C22_ZeroWhileConnected ==
    pc \notin {"connect", "tx_connect", "sleep"} => attempt = 0

\* A connect that succeeded with the counter at 3, and the connection is in
\* step 4 with the counter at 0.
C22_Witness ==
    /\ afterRun
    /\ pc = "stream_next"
    /\ attempt = 0

(***************************************************************************)
(* The task with the inbound event kept: the same loop, where each         *)
(* read.next() leaves in `frame` the event it resolved to, so that a       *)
(* property can name the frame a step has handled.                         *)
(***************************************************************************)
\* Step 2: read.next().await resolved to e.
ReadAuth ==
    /\ pc = "auth_next"
    /\ \E e \in Incoming :
        /\ Len(produced) + Cost(e, FALSE) <= MaxItems
        /\ AuthOn(e)
        /\ frame' = e

\* Step 4: read.next().await resolved to e.
ReadStream ==
    /\ pc = "stream_next"
    /\ \E e \in Incoming :
        /\ Len(produced) + Cost(e, TRUE) <= MaxItems
        /\ StreamOn(e)
        /\ frame' = e

TraceNext ==
    \/ ConnectOk
    \/ ConnectErr
    \/ WriteAuth
    \/ ReadAuth
    \/ WriteSub
    \/ ReadStream
    \/ TxConnect
    \/ TxSendAuth
    \/ TxHandshake
    \/ TxAuthFwd
    \/ TxAuthFail
    \/ TxSendSub
    \/ TxStreamFwd
    \/ TxDecode
    \/ TxRead
    \/ SleepDone
    \/ Recv
    \/ DropRx

TraceSpec == Init /\ [][TraceNext]_vars

\* The text frame f holds the "authenticated" Success.
HasAuthenticated(f) ==
    /\ f # <<>>
    /\ f.kind = "text"
    /\ \E i \in 1..Len(f.txt) : f.txt[i] = WireAuthenticated

(***************************************************************************)
(* C21.  Handshake order on every connection: the auth command is the      *)
(* first command written and is written before any inbound frame is read;  *)
(* the subscribe command is written at most once per connection, and only  *)
(* after an "authenticated" Success was read on that connection (authed    *)
(* starts false on each connection and is set only by a frame holding that *)
(* message); step 4 handles no frame before the subscribe command has been *)
(* written successfully.                                                   *)
(***************************************************************************)
C21_HandshakeOrder ==
    [][/\ wire' \in {<<>>, <<AuthCmd>>, <<AuthCmd, subscribe_json>>}
       /\ Len(wire') >= Len(wire) \/ wire' = <<>>
       /\ pc' \in AuthSites \cup StreamSites => wire' # <<>>
       /\ frame' # frame =>
            /\ pc \in {"auth_next", "stream_next"}
            /\ wire # <<>> /\ wire[1] = AuthCmd
       /\ (Len(wire') = 2 /\ Len(wire) # 2) =>
            /\ pc = "write_sub"
            /\ wire = <<AuthCmd>>
            /\ authed
       /\ pc' \in {"connect", "write_auth", "tx_send_auth"} => ~authed'
       /\ (authed' /\ ~authed) =>
            /\ pc \in {"auth_next", "tx_auth_fwd"}
            /\ wire = <<AuthCmd>>
            /\ HasAuthenticated(frame')
       /\ pc' \in StreamSites => wire' = <<AuthCmd, subscribe_json>>
       /\ (pc = "stream_next" /\ frame' # frame) => Len(wire) = 2
       /\ fed' # <<>> => Len(wire') = 2
      ]_vars

\* A second connection in step 4: an item of the first one is still queued,
\* both commands are written and a message of a frame has been forwarded.
C21_Witness ==
    /\ pc = "stream_next"
    /\ wire = <<AuthCmd, subscribe_json>>
    /\ frame # <<>> /\ frame.kind = "text"
    /\ fed # <<>>
    /\ chan # <<>> /\ ~chan[1].cur

(***************************************************************************)
(* C23.  A text frame that fails to decode during step 2 yields exactly    *)
(* one Err item ("decode during auth") and ends the phase: the subscribe   *)
(* command is not written, attempt is incremented and the task sleeps the  *)
(* backoff delay, after which its only step is a new connect attempt.      *)
(***************************************************************************)
C23_AuthDecodeError ==
    (Len(wire) < 2 /\ ~from_str(frame.txt).ok) =>
        /\ pc \in {"auth_next", "tx_auth_decode", "sleep"}
        /\ ~authed
        /\ pc = "auth_next" => (produced = <<>> /\ chan = <<>>)
        /\ pc = "tx_auth_decode" =>
             /\ out = <<ErrItem("decode during auth")>>
             /\ produced = out
             /\ chan = <<>>
             /\ wire = <<AuthCmd>>
             /\ attempt = 0
        /\ pc = "sleep" =>
             /\ out = <<>>
             /\ chan \in {<<>>, Aged(<<ErrItem("decode during auth")>>)}
             /\ wire = <<>>
             /\ attempt = 1
             /\ backoff_ms = Backoff(1)
             /\ ENABLED SleepDone
             /\ ~ENABLED (Task /\ pc' # "connect")

\* The frame held the "authenticated" Success and an element of unknown tag:
\* the task sleeps, its one error item queued and no subscribe command sent.
C23_Witness ==
    /\ frame.txt = <<WireAuthenticated, WireUnknown>>
    /\ pc = "sleep"
    /\ reason = "auth"
    /\ wire = <<>>
    /\ chan = Aged(<<ErrItem("decode during auth")>>)

(***************************************************************************)
(* C24.  A frame that is neither text nor Close (ping, pong, binary), read *)
(* in step 2 or in step 4, produces no output item and leaves the session  *)
(* as it was: the same suspension point, authed, attempt and commands      *)
(* written, nothing handed to tx.send and nothing queued.                  *)
(***************************************************************************)
C24_OtherFrameIgnored ==
    [][(pc \in {"auth_next", "stream_next"} /\ frame # OtherFrame
          /\ frame' = OtherFrame)
         => UNCHANGED <<pc, attempt, authed, batch, out, backoff_ms, chan,
                        rxAlive, wire, produced, observed, fed, reason,
                        delays, rejections, rejected>>
      ]_vars

\* A ping read in step 4 while two messages of the connection wait in the
\* channel.
C24_Witness ==
    /\ frame = OtherFrame
    /\ rxAlive
    /\ pc = "stream_next"
    /\ authed
    /\ Len(Cur(chan)) = 2

\* The text frame f holds an element that no variant of the tagged union
\* accepts.
HasUnknown(f) == \E i \in 1..Len(f.txt) : VariantOf(f.txt[i].T) = "unknown"

(***************************************************************************)
(* C25.  Frames are decoded atomically: in step 4 a text frame in which    *)
(* any element fails to parse yields exactly one Err item ("decode") and   *)
(* no Ok item, even when other elements of the frame are well-formed.      *)
(***************************************************************************)
C25_FrameAtomic ==
    (Len(wire) = 2 /\ HasUnknown(frame)) =>
        /\ pc \in {"stream_next", "tx_decode"}
        /\ fed = <<>>
        /\ batch = <<>>
        /\ observed \o chan \o out = produced
        /\ produced = IF inbound = 0 THEN <<>> ELSE <<ErrItem("decode")>>

\* A well-formed trade followed by an element of unknown tag: the consumer
\* has pulled the one error item and the task reads on.
C25_Witness ==
    /\ StreamFrameDone
    /\ frame.txt = <<WireTrade, WireUnknown>>
    /\ observed = <<ErrItem("decode")>>
    /\ chan = <<>>

\* The text frame f holds an "authenticated" Success and, later, an Error.
AuthenticatedThenError(f) ==
    \E i, j \in 1..Len(f.txt) :
        /\ i < j
        /\ f.txt[i] = WireAuthenticated
        /\ VariantOf(f.txt[j].T) = "Error"

(***************************************************************************)
(* C26.  In step 2 a frame that holds an "authenticated" Success followed  *)
(* later by an Error message does not authenticate the session: once the   *)
(* frame is handled authed is false, one Err item ("auth/handshake error") *)
(* has been produced, and the task is back at read.next() of step 2, never *)
(* at the write of the subscribe command.                                  *)
(***************************************************************************)
C26_ErrorRevokesAuth ==
    (Len(wire) < 2 /\ AuthenticatedThenError(frame) /\ ~HasUnknown(frame)) =>
        /\ pc \in {"auth_next", "tx_auth_fwd", "tx_handshake"}
        /\ wire = <<AuthCmd>>
        /\ (pc = "auth_next" /\ inbound # 0) =>
             /\ ~authed
             /\ rejected
             /\ SelectSeq(produced, LAMBDA it : ~it.ok)
                    = <<ErrItem("auth/handshake error")>>
             /\ observed \o chan = produced

\* The frame [authenticated, error] has been handled and the consumer has
\* pulled the error item: the task reads on in step 2, not authenticated.
C26_Witness ==
    /\ frame.txt = <<WireAuthenticated, WireError>>
    /\ pc = "auth_next"
    /\ inbound # 0
    /\ ~authed
    /\ wire = <<AuthCmd>>
    /\ observed = <<ErrItem("auth/handshake error")>>

(***************************************************************************)
(* C27.  Backpressure stalls the whole session: while the channel is full  *)
(* and the consumer does not pull, the task is suspended in tx.send, so it *)
(* takes no step at all (no read, no command, no reconnect); a pull of the *)
(* consumer leaves the pending send as it is, and once a slot is free the  *)
(* next step of the task queues the very item it was holding.              *)
(***************************************************************************)
C27_BackpressureStalls ==
    (rxAlive /\ pc \in TxSites) =>
        IF Len(chan) = ChanCap
        THEN /\ ~ENABLED Task
             /\ ENABLED Recv
             /\ ~ENABLED (Recv /\ <<pc, out, batch, wire, attempt>>'
                                    # <<pc, out, batch, wire, attempt>>)
        ELSE /\ ENABLED Task
             /\ ~ENABLED (Task /\ ~(/\ Len(chan') = Len(chan) + 1
                                    /\ [chan'[Len(chan')] EXCEPT !.cur = TRUE]
                                           = out[1]))

\* The read error of a connection is held by tx.send behind a channel full
\* of that connection's messages: the reconnect waits for the consumer.
C27_Witness ==
    /\ rxAlive
    /\ pc = "tx_read"
    /\ Len(Cur(chan)) = ChanCap
    /\ out = <<ErrItem("read")>>

(***************************************************************************)
(* C28.  Items keep production order across reconnects.  In the queue the  *)
(* items of earlier connections precede those of the running one, and the  *)
(* consumer has pulled an item of the running connection only when no      *)
(* older item is left; within the connection, what was pulled, what is     *)
(* queued and what tx.send holds are the items produced, in order.  (Every *)
(* connection is the running one while it queues its items, behind all     *)
(* that is older, and the consumer takes from the head.)  The Err item of  *)
(* a read failure is the last item of its connection: it is produced after *)
(* every message forwarded and is at the tail of the queue when the task   *)
(* goes to sleep.                                                          *)
(***************************************************************************)
C28_OrderAcrossReconnects ==
    /\ \A i, j \in 1..Len(chan) : (i < j /\ chan[i].cur) => chan[j].cur
    /\ rxAlive =>
         /\ observed # <<>> => \A i \in 1..Len(chan) : chan[i].cur
         /\ observed \o Cur(chan) \o out = produced
         /\ pc = "tx_read" =>
              /\ out = <<ErrItem("read")>>
              /\ produced[Len(produced)] = ErrItem("read")
              /\ batch = <<>>
         /\ (pc = "sleep" /\ reason = "read" /\ chan # <<>>) =>
              chan[Len(chan)] = [ErrItem("read") EXCEPT !.cur = FALSE]

\* Two connections: a message of the first and the error of its read failure
\* are queued, in that order, and the first message of the second waits in
\* tx.send behind them.
C28_Witness ==
    /\ rxAlive
    /\ pc = "tx_stream_fwd"
    /\ chan = <<[OkItem(Trade, 4) EXCEPT !.cur = FALSE],
                [ErrItem("read") EXCEPT !.cur = FALSE]>>
    /\ out = <<OkItem(Ack, 4)>>

(***************************************************************************)
(* C29.  In step 4 a text frame that decodes is forwarded whole, server    *)
(* Error and Success messages included: each message is delivered as an Ok *)
(* item carrying its variant, in order, none as an Err item, and the frame *)
(* neither ends step 4 nor starts a reconnect nor changes attempt.         *)
(***************************************************************************)
C29_AdminForwardedInStream ==
    (Len(wire) = 2 /\ ~HasUnknown(frame)) =>
        /\ pc \in {"stream_next", "tx_stream_fwd"}
        /\ attempt = 0
        /\ authed
        /\ backoff_ms = 0
        /\ wire = <<AuthCmd, subscribe_json>>
        /\ observed \o chan \o out = produced
        /\ inbound # 0 =>
             produced \o [i \in 1..Len(batch) |->
                            [ok |-> TRUE, v |-> batch[i], cur |-> TRUE,
                             step |-> 4]]
               = [i \in 1..Len(frame.txt) |->
                    [ok |-> TRUE,
                     v |-> [variant |-> VariantOf(frame.txt[i].T),
                            msg |-> frame.txt[i].msg],
                     cur |-> TRUE, step |-> 4]]

\* The frame [error, authenticated] read in step 4: the consumer has pulled
\* both as Ok items and the task reads on.
C29_Witness ==
    /\ StreamFrameDone
    /\ frame.txt = <<WireError, WireAuthenticated>>
    /\ attempt = 0
    /\ observed = <<[ok |-> TRUE, v |-> [variant |-> "Error", msg |-> "auth failed"],
                     cur |-> TRUE, step |-> 4],
                    [ok |-> TRUE,
                     v |-> [variant |-> "Success", msg |-> "authenticated"],
                     cur |-> TRUE, step |-> 4]>>

(***************************************************************************)
(* The task of stream_stock_data (stock_websocket.rs, lines 856-983),      *)
(* translated on its own as a step function: from the state of the task at *)
(* a suspension point and the transport event that resolves it, the state  *)
(* at the next suspension point.  The state holds the suspension point,    *)
(* the locals attempt, authed and the rest of the batch, the item tx.send  *)
(* holds, the delay of the pending sleep and the commands written on the   *)
(* connection, by action.  It connects to endpoint/feed_path where the     *)
(* crypto task connects to endpoint; the transport's answer is the event.  *)
(***************************************************************************)
\* enum StockMsg of stock_websocket.rs, by tag: the administrative variants
\* and one market-data kind.
stock_VariantOf(tag) ==
    CASE tag = "t" -> "Trade"
      [] tag = "subscription" -> "Subscription"
      [] tag = "success" -> "Success"
      [] tag = "error" -> "Error"
      [] OTHER -> "unknown"

\* serde_json::from_str::<Vec<StockMsg>>(&txt)
stock_from_str(txt) ==
    IF \E i \in 1..Len(txt) : stock_VariantOf(txt[i].T) = "unknown"
    THEN [ok |-> FALSE, batch |-> <<>>]
    ELSE [ok |-> TRUE,
          batch |-> [i \in 1..Len(txt) |->
                       [variant |-> stock_VariantOf(txt[i].T),
                        msg |-> txt[i].msg]]]

\* tx.send(Err(anyhow!(..))) and tx.send(Ok(msg)): the item handed over.
stock_Err(what) == [ok |-> FALSE, v |-> [variant |-> "Err", msg |-> what]]
stock_Ok(m) == [ok |-> TRUE, v |-> m]

\* Mutant of stock_backoff: a delay that starts at 250 ms.
stock_backoff_From250(a) == (2 ^ (IF a - 1 < 6 THEN a - 1 ELSE 6)) * 250

\* (1u64 << attempt.min(6)) * 250
stock_backoff(a) == (2 ^ (IF a < 6 THEN a ELSE 6)) * 250

\* attempt += 1; backoff_ms = ..; sleep(..).await: the connection is dropped.
stock_retry(s) ==
    [s EXCEPT !.attempt = s.attempt + 1,
              !.backoff_ms = stock_backoff(s.attempt + 1),
              !.wire = <<>>,
              !.pc = "sleep"]

\* `for msg in batch` of step 2, from its current position b to the next
\* tx.send or to `if authed { break; }`.
RECURSIVE stock_for(_, _)
stock_for(s, b) ==
    IF b = <<>>
    THEN [s EXCEPT !.batch = <<>>, !.out = <<>>,
                   !.pc = IF s.authed THEN "write_sub" ELSE "auth_next"]
    ELSE LET m == Head(b) IN
         IF m.variant = "Success" /\ m.msg = "connected"
         THEN stock_for(s, Tail(b))
         ELSE IF m.variant = "Success" /\ m.msg = "authenticated"
         THEN stock_for([s EXCEPT !.authed = TRUE], Tail(b))
         ELSE IF m.variant = "Error"
         THEN [s EXCEPT !.batch = <<>>,
                        !.out = <<stock_Err("auth/handshake error")>>,
                        !.pc = "tx_handshake"]
         ELSE [s EXCEPT !.batch = Tail(b), !.out = <<stock_Ok(m)>>,
                        !.pc = "tx_auth_fwd"]

\* The end of the while loop of step 2: `if !authed`.
stock_leave(s) ==
    IF s.authed THEN [s EXCEPT !.pc = "write_sub"] ELSE stock_retry(s)

\* Step 2: read.next().await resolved to ev.
stock_auth(s, ev) ==
    IF ev.kind = "text"
    THEN LET d == stock_from_str(ev.txt) IN
         IF d.ok
         THEN stock_for(s, d.batch)
         ELSE [s EXCEPT !.out = <<stock_Err("decode during auth")>>,
                        !.pc = "tx_auth_decode"]
    ELSE IF ev.kind = "err"
    THEN [s EXCEPT !.out = <<stock_Err("read during auth")>>,
                   !.pc = "tx_auth_read"]
    ELSE IF ev.kind = "other"
    THEN s
    ELSE stock_leave(s)

\* Step 4: read.next().await resolved to ev.
stock_stream(s, ev) ==
    IF ev.kind = "text"
    THEN LET d == stock_from_str(ev.txt) IN
         IF d.ok
         THEN IF d.batch = <<>>
              THEN s
              ELSE [s EXCEPT !.out = <<stock_Ok(Head(d.batch))>>,
                             !.batch = Tail(d.batch),
                             !.pc = "tx_stream_fwd"]
         ELSE [s EXCEPT !.out = <<stock_Err("decode")>>, !.pc = "tx_decode"]
    ELSE IF ev.kind = "err"
    THEN [s EXCEPT !.out = <<stock_Err("read")>>, !.pc = "tx_read"]
    ELSE IF ev.kind = "other"
    THEN s
    ELSE stock_retry(s)

\* One step of the task of stream_stock_data.
stock_step(s, ev) ==
    LET sent == [s EXCEPT !.out = <<>>] IN
    CASE s.pc = "connect" ->
           IF ev.kind = "connect_ok"
           THEN [s EXCEPT !.attempt = 0, !.pc = "write_auth"]
           ELSE [s EXCEPT !.out = <<stock_Err("connect")>>,
                          !.pc = "tx_connect"]
      [] s.pc = "tx_connect" -> stock_retry(sent)
      [] s.pc = "write_auth" ->
           IF ev.kind = "write_ok"
           THEN [s EXCEPT !.wire = Append(s.wire, "auth"),
                          !.pc = "auth_next"]
           ELSE [s EXCEPT !.out = <<stock_Err("send auth")>>,
                          !.pc = "tx_send_auth"]
      [] s.pc = "tx_send_auth" ->
           [sent EXCEPT !.wire = <<>>, !.pc = "connect"]
      [] s.pc = "auth_next" -> stock_auth(s, ev)
      [] s.pc = "tx_handshake" ->
           [sent EXCEPT !.authed = FALSE, !.batch = <<>>, !.pc = "auth_next"]
      [] s.pc = "tx_auth_fwd" -> stock_for(s, s.batch)
      [] s.pc \in {"tx_auth_decode", "tx_auth_read"} -> stock_leave(sent)
      [] s.pc = "write_sub" ->
           IF ev.kind = "write_ok"
           THEN [s EXCEPT !.wire = Append(s.wire, "subscribe"),
                          !.pc = "stream_next"]
           ELSE [s EXCEPT !.out = <<stock_Err("send subscribe")>>,
                          !.pc = "tx_send_sub"]
      [] s.pc = "tx_send_sub" -> stock_retry(sent)
      [] s.pc = "stream_next" -> stock_stream(s, ev)
      [] s.pc = "tx_stream_fwd" ->
           IF s.batch = <<>>
           THEN [sent EXCEPT !.pc = "stream_next"]
           ELSE [s EXCEPT !.out = <<stock_Ok(Head(s.batch))>>,
                          !.batch = Tail(s.batch)]
      [] s.pc = "tx_decode" -> [sent EXCEPT !.pc = "stream_next"]
      [] s.pc = "tx_read" -> stock_retry(sent)
      [] s.pc = "sleep" ->
           [s EXCEPT !.authed = FALSE, !.backoff_ms = 0, !.pc = "connect"]

(***************************************************************************)
(* The task of stream_crypto_data, seen the same way.                      *)
(***************************************************************************)
\* The state of the task: its suspension point, its locals, the item its
\* tx.send holds and the commands it has written, by action.
Supervisor ==
    [pc |-> pc, attempt |-> attempt, authed |-> authed, batch |-> batch,
     out |-> [i \in 1..Len(out) |-> [ok |-> out[i].ok, v |-> out[i].v]],
     backoff_ms |-> backoff_ms,
     wire |-> [i \in 1..Len(wire) |-> wire[i].action]]

\* The transport event that a step of the task has consumed: the result of
\* the connect or of the write, the inbound event, the send that resolved,
\* or the timer.
EventOf ==
    IF pc = "connect"
    THEN [kind |-> IF pc' = "write_auth" THEN "connect_ok" ELSE "connect_err"]
    ELSE IF pc \in {"write_auth", "write_sub"}
    THEN [kind |-> IF pc' \in {"auth_next", "stream_next"}
                   THEN "write_ok" ELSE "write_err"]
    ELSE IF pc \in {"auth_next", "stream_next"}
    THEN frame'
    ELSE IF pc = "sleep"
    THEN [kind |-> "timer"]
    ELSE [kind |-> "sent"]

====
